---- MODULE Spec2Model ----
(***************************************************************************)
(* CloudCartography: src/GCP/gcp.py and src/OCI/oci.py.                    *)
(*                                                                         *)
(* Each script reads a Terraform state file, builds a table of resources   *)
(* keyed by "<type>.<name>", creates one diagram node per table entry,     *)
(* infers connections between entries and draws them as directed edges.    *)
(* main wraps parse_terraform_state and generate_diagram in one            *)
(* try/except.  One run of main is modelled as a state machine; the        *)
(* variable `script` says which of the two scripts is run.                 *)
(*                                                                         *)
(* Python strings are TLA+ strings (Len, \o and SubSeq act on them).  A    *)
(* JSON value is a record [t, v]: a string [t |-> "str", v |-> s] or null  *)
(* [t |-> "null", v |-> ""].  An attributes object is a record whose       *)
(* domain is the set of keys present.  A Python dict that is iterated is   *)
(* a sequence of entries in insertion order.  The diagrams library         *)
(* (node construction, layout, rendering) is taken not to raise.           *)
(***************************************************************************)
EXTENDS Integers, Sequences, FiniteSets, TLC

\* script      "GCP" or "OCI": which script is run
\* fileKind    what --state names: "ok" (JSON with a 'resources' list),
\*             "missing", "malformed" or "no_resources_key"
\* stateData   state_data['resources'], a sequence of resources
\* pc          position of main: "main", "generate", "nodes", "connect",
\*             "returned", "except", "done"
\* idx         position of the current loop over resources.items()
\* resources   the table parse_terraform_state returns, in insertion order
\* nodes       generate_diagram's nodes: id -> icon class
\* connections generate_diagram's connections: id -> set of ids
\* edges       the edges drawn, <<source_id, target_id>>
\* exc         the exception raised in the try body, "" when none
\* stdout      the success message has been printed
\* stderr      the error has been printed
\* status      "running", "exit0" or "exit1"
VARIABLES script, fileKind, stateData, pc, idx, resources, nodes,
          connections, edges, exc, stdout, stderr, status

vars == <<script, fileKind, stateData, pc, idx, resources, nodes,
          connections, edges, exc, stdout, stderr, status>>

\* The longest 'resources' list of a state file.
MaxResources == 3

-----------------------------------------------------------------------------
(* JSON values and Python string operations *)

S(x) == [t |-> "str", v |-> x]
Null == [t |-> "null", v |-> ""]

\* isinstance(value, str)
IsStr(val) == val.t = "str"

\* the truth value of `if value:`
Truthy(val) == IsStr(val) /\ val.v # ""

\* str(value), as an f-string formats it
PyStr(val) == IF IsStr(val) THEN val.v ELSE "None"

\* attrs.get(key, default)
Get(attrs, key, default) == IF key \in DOMAIN attrs THEN attrs[key] ELSE default

\* sub in s, for two strings
Contains(sub, s) ==
    \E i \in 0..(Len(s) - Len(sub)) : SubSeq(s, i + 1, i + Len(sub)) = sub

\* s.split('/')[-1]
LastSegment(s) ==
    LET slashes == {i \in 1..Len(s) : SubSeq(s, i, i) = "/"}
    IN  IF slashes = {} THEN s
        ELSE LET last == CHOOSE i \in slashes : \A j \in slashes : j <= i
             IN  SubSeq(s, last + 1, Len(s))

Range(seq) == {seq[i] : i \in 1..Len(seq)}

-----------------------------------------------------------------------------
(* parse_terraform_state *)

\* resource_name as a script that never looks at 'display_name' would take it
ResourceNameWithoutDisplayName(s, resource, attributes) ==
    Get(attributes, "name", S(resource.name))

\* resource_name, gcp.py line 25 and oci.py line 24
ResourceName(s, resource, attributes) ==
    IF s = "GCP"
    THEN Get(attributes, "name", S(resource.name))
    ELSE Get(attributes, "display_name",
             Get(attributes, "name", S(resource.name)))

\* resource_id = f"{resource_type}.{resource_name}"
ResourceId(type, name) == type \o "." \o PyStr(name)

\* resources[resource_id] = {...}: a new key is appended, an existing key
\* keeps its place and takes the new value
DictSet(table, entry) ==
    IF \E i \in 1..Len(table) : table[i].id = entry.id
    THEN [i \in 1..Len(table) |->
             IF table[i].id = entry.id THEN entry ELSE table[i]]
    ELSE Append(table, entry)

\* the table entry of one instance
MakeEntry(s, resource, attributes) ==
    LET name == ResourceName(s, resource, attributes)
    IN  [id         |-> ResourceId(resource.type, name),
         type       |-> resource.type,
         name       |-> name,
         attributes |-> attributes]

RECURSIVE ParseInstances(_, _, _, _)
ParseInstances(s, resource, k, table) ==
    IF k > Len(resource.instances) THEN table
    ELSE ParseInstances(s, resource, k + 1,
             DictSet(table, MakeEntry(s, resource, resource.instances[k])))

RECURSIVE ParseResources(_, _, _, _)
ParseResources(s, data, r, table) ==
    IF r > Len(data) THEN table
    ELSE ParseResources(s, data, r + 1,
             ParseInstances(s, data[r], 1, table))

ParseTerraformState(s, data) == ParseResources(s, data, 1, <<>>)

\* what open / json.load / state_data['resources'] raise
ParseRaises(kind) ==
    CASE kind = "missing"   -> "FileNotFoundError"
      [] kind = "malformed" -> "JSONDecodeError"
      [] kind = "no_resources_key" -> "KeyError"
      [] OTHER -> ""

-----------------------------------------------------------------------------
(* map_resource_to_icon *)

\* the names each script imports (gcp.py lines 4-15, oci.py lines 4-14)
Imported(s) ==
    IF s = "GCP"
    THEN {"Diagram", "Edge", "Node", "Cluster", "ComputeEngine",
          "VirtualPrivateCloud", "Router", "NAT", "FirewallRules", "Routes",
          "Storage", "SQL", "Bigquery", "Iam", "ResourceManager", "Subnet",
          "Rack", "GenericStorage", "GenericSQL", "Datacenter"}
    ELSE {"Diagram", "Edge", "Node", "Cluster", "VM", "Vcn", "Encryption",
          "BlockStorage", "ObjectStorage", "DatabaseService", "Rack",
          "Switch", "Firewall", "Router", "GenericStorage", "GenericSQL",
          "Datacenter"}

\* evaluating a global name: the class, or NameError when it is not bound
NameRef(s, name) ==
    IF name \in Imported(s) THEN [exc |-> "", icon |-> name]
    ELSE [exc |-> "NameError", icon |-> ""]

gcp_mappings ==
    [google_compute_instance      |-> "ComputeEngine",
     google_compute_network       |-> "VirtualPrivateCloud",
     google_compute_subnetwork    |-> "Subnet",
     google_compute_firewall      |-> "FirewallRules",
     google_compute_router        |-> "Router",
     google_compute_router_nat    |-> "NAT",
     google_storage_bucket        |-> "Storage",
     google_sql_database_instance |-> "SQL",
     google_bigquery_dataset      |-> "Bigquery",
     google_iam_policy            |-> "Iam",
     google_compute_route         |-> "Routes",
     google_project               |-> "ResourceManager"]

oci_mappings ==
    [oci_core_instance          |-> "VM",
     oci_core_vcn               |-> "Vcn",
     oci_core_subnet            |-> "Switch",
     oci_core_security_list     |-> "Firewall",
     oci_core_route_table       |-> "Router",
     oci_core_nat_gateway       |-> "Router",
     oci_core_internet_gateway  |-> "Router",
     oci_core_service_gateway   |-> "Router",
     oci_core_volume            |-> "BlockStorage",
     oci_objectstorage_bucket   |-> "ObjectStorage",
     oci_database_db_system     |-> "DatabaseService",
     oci_core_network_security_group |-> "Firewall",
     oci_core_network_security_group_security_rule |-> "Firewall"]

\* gcp.py lines 52-69: the name each branch returns
GcpIconName(resource_type) ==
    IF resource_type \in DOMAIN gcp_mappings THEN gcp_mappings[resource_type]
    ELSE IF Contains("compute", resource_type) THEN "Rack"
    ELSE IF Contains("network", resource_type) THEN "Switch"
    ELSE IF Contains("storage", resource_type) THEN "GenericStorage"
    ELSE IF Contains("database", resource_type) THEN "GenericSQL"
    ELSE IF Contains("security", resource_type) \/ Contains("iam", resource_type)
         THEN "Iam"
    ELSE IF Contains("project", resource_type)
            \/ Contains("resource_manager", resource_type)
         THEN "ResourceManager"
    ELSE "Datacenter"

\* oci.py line 51: oci_mappings.get(resource_type, Datacenter)
OciIconName(resource_type) ==
    IF resource_type \in DOMAIN oci_mappings THEN oci_mappings[resource_type]
    ELSE "Datacenter"

MapResourceToIcon(s, resource_type) ==
    NameRef(s, IF s = "GCP" THEN GcpIconName(resource_type)
               ELSE OciIconName(resource_type))

-----------------------------------------------------------------------------
(* generate_diagram, gcp.py: one iteration of the loop of lines 94-146 *)

Others(res, r) == {o \in Range(res) : o.id # r.id}

\* lines 98-102: the resources whose name occurs in a string attribute
CommonTargets(res, r) ==
    {o.id : o \in {x \in Others(res, r) :
        \E a \in DOMAIN r.attributes :
            /\ IsStr(r.attributes[a])
            /\ Contains(x.name.v, r.attributes[a].v)}}

\* line 101: `name in value` raises TypeError when name is not a string
CommonRaises(res, r) ==
    /\ \E a \in DOMAIN r.attributes : IsStr(r.attributes[a])
    /\ \E o \in Range(res) : ~IsStr(o.name)

\* attributes.get(key, '').split('/') raises AttributeError on a non-string
SplitRaises(r, key) == ~IsStr(Get(r.attributes, key, S("")))

\* attributes.get(key, '').split('/')[-1]
SplitLast(r, key) == LastSegment(Get(r.attributes, key, S("")).v)

\* lines 110, 113, 120, 129, 138: other is the resource of that type and name
TypeAndName(other, type, name) == other.type = type /\ other.name = S(name)

\* line 110 without the comparison of the name
InstanceSubnetMatchAnyName(other, subnet_id) ==
    other.type = "google_compute_subnetwork"

\* line 110
InstanceSubnetMatch(other, subnet_id) ==
    TypeAndName(other, "google_compute_subnetwork", subnet_id)

\* line 112: connections[other_id].add(resource_id) for every matching subnet
InstanceBackLinks(res, r) ==
    {o.id : o \in {x \in Others(res, r) :
        InstanceSubnetMatch(x, SplitLast(r, "subnetwork"))}}

\* lines 105-146: what the branch of the resource's type adds to
\* connections[resource_id]
SpecificTargets(res, r) ==
    LET network_id == SplitLast(r, "network")
        net(o) == TypeAndName(o, "google_compute_network", network_id)
        pick(P(_)) == {o.id : o \in {x \in Others(res, r) : P(x)}}
        inst(o) == \/ InstanceSubnetMatch(o, SplitLast(r, "subnetwork"))
                   \/ net(o)
        subn(o) == \/ net(o)
                   \/ /\ o.type = "google_compute_instance"
                      /\ Contains(r.name.v, Get(o.attributes, "subnetwork", S("")).v)
        fire(o) == net(o) \/ o.type = "google_compute_instance"
        rnat(o) == /\ o.type = "google_compute_router"
                   /\ o.name = Get(r.attributes, "router", S(""))
    IN  CASE r.type = "google_compute_instance"   -> pick(inst)
          [] r.type = "google_compute_subnetwork" -> pick(subn)
          [] r.type = "google_compute_firewall"   -> pick(fire)
          [] r.type = "google_compute_router"     -> pick(net)
          [] r.type = "google_compute_router_nat" -> pick(rnat)
          [] OTHER -> {}

\* the exception the branch of the resource's type raises, "" when none;
\* conn is connections after line 95
SpecificRaises(res, r, conn) ==
    CASE r.type = "google_compute_instance" ->
            IF SplitRaises(r, "subnetwork") \/ SplitRaises(r, "network")
            THEN "AttributeError"
            ELSE IF \E k \in InstanceBackLinks(res, r) : k \notin DOMAIN conn
            THEN "KeyError"
            ELSE ""
      [] r.type = "google_compute_subnetwork" ->
            IF SplitRaises(r, "network") THEN "AttributeError"
            ELSE IF \E o \in Others(res, r) :
                      /\ o.type = "google_compute_instance"
                      /\ \/ ~IsStr(r.name)
                         \/ ~IsStr(Get(o.attributes, "subnetwork", S("")))
            THEN "TypeError"
            ELSE ""
      [] r.type \in {"google_compute_firewall", "google_compute_router"} ->
            IF SplitRaises(r, "network") THEN "AttributeError" ELSE ""
      [] OTHER -> ""

\* line 95: connections[resource_id] = set()
NewKey(conn, id) ==
    [k \in DOMAIN conn \cup {id} |-> IF k = id THEN {} ELSE conn[k]]

\* one iteration: [exc, conn], conn being connections after it
GcpConnect(res, r, conn) ==
    LET c1 == NewKey(conn, r.id)
    IN  IF CommonRaises(res, r) THEN [exc |-> "TypeError", conn |-> conn]
        ELSE IF SpecificRaises(res, r, c1) # ""
        THEN [exc |-> SpecificRaises(res, r, c1), conn |-> conn]
        ELSE LET back == IF r.type = "google_compute_instance"
                         THEN InstanceBackLinks(res, r) ELSE {}
             IN [exc |-> "",
                 conn |-> [k \in DOMAIN c1 |->
                     c1[k]
                     \cup (IF k = r.id
                           THEN CommonTargets(res, r) \cup SpecificTargets(res, r)
                           ELSE {})
                     \cup (IF k \in back THEN {r.id} ELSE {})]]

-----------------------------------------------------------------------------
(* generate_diagram, oci.py: one iteration of the loop of lines 76-137 *)

\* resources[other_id]['type'] == type and
\* resources[other_id]['attributes'].get('id') == ref, under `if ref:`
IdMatches(res, type, ref) ==
    IF Truthy(ref)
    THEN {o.id : o \in {x \in Range(res) :
              x.type = type /\ Get(x.attributes, "id", Null) = ref}}
    ELSE {}

OfType(res, type) == {o.id : o \in {x \in Range(res) : x.type = type}}

VcnAttached ==
    {"oci_core_security_list", "oci_core_route_table", "oci_core_nat_gateway",
     "oci_core_internet_gateway", "oci_core_service_gateway"}

\* the ids the iteration for r connects r to
OciTargets(res, r) ==
    LET attrs == r.attributes
        vcn == IdMatches(res, "oci_core_vcn", Get(attrs, "vcn_id", Null))
        byType ==
          CASE r.type = "oci_core_instance" ->
                 IdMatches(res, "oci_core_subnet", Get(attrs, "subnet_id", Null))
                 \cup OfType(res, "oci_core_network_security_group")
            [] r.type = "oci_core_subnet" -> vcn
            [] r.type \in VcnAttached -> vcn
            [] r.type = "oci_core_network_security_group" ->
                 vcn \cup OfType(res, "oci_core_instance")
            [] r.type = "oci_core_network_security_group_security_rule" ->
                 IdMatches(res, "oci_core_network_security_group",
                           Get(attrs, "network_security_group_id", Null))
            [] OTHER -> {}
    IN  byType \cup IdMatches(res, "oci_identity_compartment",
                              Get(attrs, "compartment_id", Null))

\* the first add without the second
LinkOneWay(conn, id, others) ==
    [k \in DOMAIN conn |-> conn[k] \cup (IF k = id THEN others ELSE {})]

\* connections[resource_id].add(other_id); connections[other_id].add(resource_id)
\* for every other_id of a set
Link(conn, id, others) ==
    [k \in DOMAIN conn |->
        conn[k] \cup (IF k = id THEN others ELSE {})
                \cup (IF k \in others THEN {id} ELSE {})]

OciConnect(res, r, conn) == Link(conn, r.id, OciTargets(res, r))

\* line 68: connections = {resource_id: set() for resource_id in resources}
OciInitConnections(res) == [k \in {e.id : e \in Range(res)} |-> {}]

\* the drawing loop (gcp.py 149-152, oci.py 140-143): the edges drawn
DrawEdges(nds, conn) ==
    {p \in (DOMAIN conn) \X (DOMAIN nds) :
        /\ p[2] \in conn[p[1]]
        /\ p[1] \in DOMAIN nds
        /\ p[1] # p[2]}

-----------------------------------------------------------------------------
(* The state files a run is given: every list of at most MaxResources      *)
(* resources drawn from a catalogue per provider.                          *)

Res(type, name, instances) ==
    [type |-> type, name |-> name, instances |-> instances]

GcpCatalogue ==
    { Res("google_compute_instance", "vm",
          << [name |-> S("vm"), subnetwork |-> S("p/sub"), network |-> S("p/net")] >>),
      Res("google_compute_instance", "app",
          << [name |-> S("subvm"), subnetwork |-> S("p/other")] >>),
      Res("google_compute_instance", "grp",
          << [zone |-> Null], [tags |-> Null] >>),
      Res("google_compute_instance", "db",
          << [name |-> S("db"), subnetwork |-> Null] >>),
      Res("google_compute_subnetwork", "sub",
          << [name |-> S("sub"), network |-> S("p/net")] >>),
      Res("google_compute_subnetwork", "blank",
          << [name |-> S("")] >>),
      Res("google_compute_network", "net",
          << [name |-> S("net"), description |-> Null] >>),
      Res("google_compute_firewall", "fw",
          << [name |-> S("fw"), network |-> S("net")] >>),
      Res("google_compute_router", "rt",
          << [name |-> S("rt"), network |-> S("p/net")] >>),
      Res("google_compute_router_nat", "nat",
          << [name |-> S("nat"), router |-> S("rt")] >>),
      Res("google_service_networking_connection", "peer",
          << [service |-> Null] >>),
      Res("google_compute_disk", "disk",
          << [size |-> Null] >>),
      Res("google_pubsub_topic", "topic",
          << [name |-> Null] >>) }

OciCatalogue ==
    { Res("oci_core_instance", "web",
          << [display_name |-> S("web"), name |-> S("w"), subnet_id |-> S("s1"),
              compartment_id |-> S("c1")] >>),
      Res("oci_core_instance", "job",
          << [name |-> S("job"), subnet_id |-> Null, nsg_ids |-> S("n1")] >>),
      Res("oci_core_instance", "pool",
          << [subnet_id |-> S("s1")], [subnet_id |-> S("s2")] >>),
      Res("oci_core_subnet", "sub",
          << [display_name |-> S("sub"), id |-> S("s1"), vcn_id |-> S("v1")] >>),
      Res("oci_core_vcn", "vcn",
          << [display_name |-> S("vcn"), id |-> S("v1"),
              compartment_id |-> S("c1")] >>),
      Res("oci_core_network_security_group", "nsg",
          << [display_name |-> S("nsg"), id |-> S("n1"), vcn_id |-> S("v1")] >>),
      Res("oci_core_network_security_group_security_rule", "rule",
          << [network_security_group_id |-> S("n1")] >>),
      Res("oci_core_route_table", "rt",
          << [display_name |-> S("rt"), vcn_id |-> S("v1")] >>),
      Res("oci_identity_compartment", "comp",
          << [name |-> S("comp"), id |-> S("c1"), compartment_id |-> S("c1")] >>),
      Res("oci_core_volume", "vol",
          << [display_name |-> Null, name |-> S("vol")] >>) }

Catalogue(s) == IF s = "GCP" THEN GcpCatalogue ELSE OciCatalogue

StateFiles(s) == UNION {[1..n -> Catalogue(s)] : n \in 0..MaxResources}

-----------------------------------------------------------------------------
(* main *)

EmptyDict == [k \in {} |-> {}]

Init ==
    /\ script \in {"GCP", "OCI"}
    /\ fileKind \in {"ok", "missing", "malformed", "no_resources_key"}
    /\ stateData \in IF fileKind = "ok" THEN StateFiles(script) ELSE {<<>>}
    /\ pc = "main"
    /\ idx = 0
    /\ resources = <<>>
    /\ nodes = EmptyDict
    /\ connections = EmptyDict
    /\ edges = {}
    /\ exc = ""
    /\ stdout = FALSE
    /\ stderr = FALSE
    /\ status = "running"

\* an exception propagates to the except clause of main
Raise(e) ==
    /\ exc' = e
    /\ pc' = "except"

\* resources = parse_terraform_state(args.state)
Parse ==
    /\ pc = "main"
    /\ IF ParseRaises(fileKind) # ""
       THEN /\ Raise(ParseRaises(fileKind))
            /\ UNCHANGED resources
       ELSE /\ resources' = ParseTerraformState(script, stateData)
            /\ pc' = "generate"
            /\ UNCHANGED exc
    /\ UNCHANGED <<script, fileKind, stateData, idx, nodes, connections,
                   edges, stdout, stderr, status>>

\* generate_diagram is entered: nodes = {} and connections = {} (gcp.py 85-86)
\* or one empty set per resource id (oci.py 67-68)
EnterGenerate ==
    /\ pc = "generate"
    /\ nodes' = EmptyDict
    /\ connections' = IF script = "GCP" THEN EmptyDict
                      ELSE OciInitConnections(resources)
    /\ idx' = 1
    /\ pc' = "nodes"
    /\ UNCHANGED <<script, fileKind, stateData, resources, edges, exc,
                   stdout, stderr, status>>

\* one iteration of "Create all nodes"
CreateNode ==
    /\ pc = "nodes"
    /\ idx <= Len(resources)
    /\ LET r == resources[idx]
           icon_class == MapResourceToIcon(script, r.type)
       IN  IF icon_class.exc # ""
           THEN /\ Raise(icon_class.exc)
                /\ UNCHANGED <<nodes, idx>>
           ELSE /\ nodes' = [k \in DOMAIN nodes \cup {r.id} |->
                                IF k = r.id THEN icon_class.icon ELSE nodes[k]]
                /\ idx' = idx + 1
                /\ UNCHANGED <<pc, exc>>
    /\ UNCHANGED <<script, fileKind, stateData, resources, connections,
                   edges, stdout, stderr, status>>

\* the node loop ends, the connection loop starts
NodesDone ==
    /\ pc = "nodes"
    /\ idx > Len(resources)
    /\ pc' = "connect"
    /\ idx' = 1
    /\ UNCHANGED <<script, fileKind, stateData, resources, nodes,
                   connections, edges, exc, stdout, stderr, status>>

\* one iteration of "Create connections", gcp.py
GcpConnectStep ==
    /\ pc = "connect"
    /\ script = "GCP"
    /\ idx <= Len(resources)
    /\ LET out == GcpConnect(resources, resources[idx], connections)
       IN  IF out.exc # ""
           THEN /\ Raise(out.exc)
                /\ UNCHANGED <<connections, idx>>
           ELSE /\ connections' = out.conn
                /\ idx' = idx + 1
                /\ UNCHANGED <<pc, exc>>
    /\ UNCHANGED <<script, fileKind, stateData, resources, nodes, edges,
                   stdout, stderr, status>>

\* one iteration of "Create connections", oci.py
OciConnectStep ==
    /\ pc = "connect"
    /\ script = "OCI"
    /\ idx <= Len(resources)
    /\ connections' = OciConnect(resources, resources[idx], connections)
    /\ idx' = idx + 1
    /\ UNCHANGED <<script, fileKind, stateData, pc, resources, nodes, edges,
                   exc, stdout, stderr, status>>

\* "Draw connections", then generate_diagram returns
Draw ==
    /\ pc = "connect"
    /\ idx > Len(resources)
    /\ edges' = DrawEdges(nodes, connections)
    /\ pc' = "returned"
    /\ UNCHANGED <<script, fileKind, stateData, idx, resources, nodes,
                   connections, exc, stdout, stderr, status>>

\* main with the success message printed outside the try body
MainOutcomePrintsAlways(raised) ==
    [stdout |-> TRUE, stderr |-> raised,
     status |-> IF raised THEN "exit1" ELSE "exit0"]

\* what main prints and how the process ends, by whether the try body raised
MainOutcome(raised) ==
    IF raised
    THEN [stdout |-> FALSE, stderr |-> TRUE, status |-> "exit1"]
    ELSE [stdout |-> TRUE, stderr |-> FALSE, status |-> "exit0"]

Finish(raised) ==
    /\ stdout' = MainOutcome(raised).stdout
    /\ stderr' = MainOutcome(raised).stderr
    /\ status' = MainOutcome(raised).status
    /\ pc' = "done"
    /\ UNCHANGED <<script, fileKind, stateData, idx, resources, nodes,
                   connections, edges, exc>>

\* print("Infrastructure diagram generated successfully! ...")
PrintSuccess == pc = "returned" /\ Finish(FALSE)

\* except Exception as e: print the error, sys.exit(1)
HandleException == pc = "except" /\ Finish(TRUE)

Next ==
    \/ Parse
    \/ EnterGenerate
    \/ CreateNode
    \/ NodesDone
    \/ GcpConnectStep
    \/ OciConnectStep
    \/ Draw
    \/ PrintSuccess
    \/ HandleException

Spec == Init /\ [][Next]_vars

-----------------------------------------------------------------------------
(* Properties *)

Ids(res) == {e.id : e \in Range(res)}
EntryOf(id) == CHOOSE e \in Range(resources) : e.id = id
Parsed == fileKind = "ok" /\ pc # "main"
Drawn == pc \in {"returned", "done"} /\ exc = ""
\* the instances of a state file, as <<resource index, instance index>>
Instances(data) ==
    UNION {{<<r, k>> : k \in 1..Len(data[r].instances)} : r \in 1..Len(data)}

\* C1: every well-formed state file ends in the success outcome.  Stated for
\* the runs that do not fail on a null attribute value: once main is done on
\* a file with a 'resources' list, no exception was raised, the success
\* message is printed and the exit status is not 1.
C1_WellFormedSucceeds ==
    (pc = "done" /\ fileKind = "ok" /\ exc \notin {"TypeError", "AttributeError"})
        => (exc = "" /\ stdout /\ status = "exit0")

\* C2: map_resource_to_icon is total: for the type of every resource of the
\* table it returns an icon class and does not raise.
C2_MapTotal ==
    \A e \in Range(resources) :
        /\ MapResourceToIcon(script, e.type).exc = ""
        /\ MapResourceToIcon(script, e.type).icon \in Imported(script)

\* C3: distinct instances get distinct ids, so the table returned by
\* parse_terraform_state has one entry per instance of the input.  Stated
\* for state files that list no resource twice.
C3_OneEntryPerInstance ==
    (Parsed /\ \A i, j \in 1..Len(stateData) :
                   stateData[i] = stateData[j] => i = j)
        => Len(resources) = Cardinality(Instances(stateData))

\* C4: whenever parse_terraform_state or generate_diagram raised, main prints
\* the error, exits with status 1 and does not print the success message;
\* the success message is printed only when both steps completed without
\* raising.
C4_CatchAll ==
    /\ (pc = "done" /\ exc # "") => (stderr /\ status = "exit1" /\ ~stdout)
    /\ stdout => (exc = "" /\ pc = "done" /\ status = "exit0"
                  /\ (fileKind = "ok" /\ idx > Len(resources)))
    /\ (pc # "done") => (status = "running" /\ ~stderr)

\* C4 witness: main is done after an exception raised inside
\* generate_diagram.
C4_Witness ==
    pc = "done" /\ fileKind = "ok" /\ exc = "KeyError" /\ status = "exit1"

\* the subnetwork attribute of the instance references the subnet's name:
\* it contains it, or its last path segment is it
SubnetworkReferences(inst, subnet) ==
    LET sub == Get(inst.attributes, "subnetwork", S(""))
    IN  /\ IsStr(sub)
        /\ IsStr(subnet.name)
        /\ \/ Contains(subnet.name.v, sub.v)
           \/ LastSegment(sub.v) = subnet.name.v

InstanceToSubnetEdges ==
    {p \in edges :
        /\ EntryOf(p[1]).type = "google_compute_instance"
        /\ EntryOf(p[2]).type = "google_compute_subnetwork"}

\* C5 as claimed: in the GCP script an edge is drawn from an instance to a
\* subnet only if the instance's subnetwork attribute references the subnet's
\* name.
C5_OnlySubnetworkAttribute ==
    (script = "GCP" /\ Drawn) =>
        \A p \in InstanceToSubnetEdges :
            SubnetworkReferences(EntryOf(p[1]), EntryOf(p[2]))

\* some string attribute of the instance contains the subnet's name
SomeAttributeContains(inst, subnet) ==
    \E a \in DOMAIN inst.attributes :
        /\ IsStr(inst.attributes[a])
        /\ IsStr(subnet.name)
        /\ Contains(subnet.name.v, inst.attributes[a].v)

\* C5 amended: in the GCP script an edge is drawn from an instance to a
\* subnet only if some string-valued attribute of the instance (any
\* attribute, not only 'subnetwork') contains the subnet's name, or the last
\* '/'-segment of the instance's subnetwork attribute (the empty string when
\* the attribute is absent) equals the subnet's name.
C5_AnyAttributeOrLastSegment ==
    (script = "GCP" /\ Drawn) =>
        \A p \in InstanceToSubnetEdges :
            \/ SomeAttributeContains(EntryOf(p[1]), EntryOf(p[2]))
            \/ /\ IsStr(Get(EntryOf(p[1]).attributes, "subnetwork", S("")))
               /\ EntryOf(p[2]).name =
                      S(LastSegment(Get(EntryOf(p[1]).attributes,
                                        "subnetwork", S("")).v))

\* C5 witness: an edge from an instance to a subnet is drawn although the
\* instance's subnetwork attribute does not reference the subnet.
C5_Witness ==
    /\ script = "GCP"
    /\ Drawn
    /\ \E p \in InstanceToSubnetEdges :
           /\ ~SubnetworkReferences(EntryOf(p[1]), EntryOf(p[2]))
           /\ SomeAttributeContains(EntryOf(p[1]), EntryOf(p[2]))

\* the instance's subnetwork attribute is a string whose last segment is the
\* name of the subnet
NamesSubnet(inst, subnet) ==
    /\ inst.type = "google_compute_instance"
    /\ subnet.type = "google_compute_subnetwork"
    /\ "subnetwork" \in DOMAIN inst.attributes
    /\ IsStr(inst.attributes.subnetwork)
    /\ subnet.name = S(LastSegment(inst.attributes.subnetwork.v))

\* C6: in the GCP script, for every instance whose subnetwork attribute's
\* last segment is the name of a subnet of the table, both directions of
\* the connection are recorded and reach the drawing phase, in whatever
\* order the two appear in the table.  Stated for the runs that fail on
\* nothing else (an unmapped type, a null attribute value).
C6_BothDirectionsAnyOrder ==
    (script = "GCP" /\ pc = "done" /\ fileKind = "ok"
       /\ exc \notin {"NameError", "TypeError", "AttributeError"}) =>
        \A i, s \in Range(resources) :
            NamesSubnet(i, s) =>
                /\ exc = ""
                /\ <<i.id, s.id>> \in edges
                /\ <<s.id, i.id>> \in edges

\* the attributes of the instance reference the group: a string attribute
\* contains the group's id or its name
ReferencesGroup(inst, group) ==
    \E a \in DOMAIN inst.attributes :
        /\ IsStr(inst.attributes[a])
        /\ \/ /\ Truthy(Get(group.attributes, "id", Null))
              /\ Contains(group.attributes.id.v, inst.attributes[a].v)
           \/ /\ Truthy(group.name)
              /\ Contains(group.name.v, inst.attributes[a].v)

\* C7: in the OCI script a connection between an instance and a network
\* security group is recorded only when the instance's attributes reference
\* that group.
C7_OnlyReferencedGroup ==
    (script = "OCI" /\ pc \in {"connect", "returned", "done"}) =>
        \A i, g \in Range(resources) :
            ( /\ i.type = "oci_core_instance"
              /\ g.type = "oci_core_network_security_group"
              /\ (g.id \in connections[i.id] \/ i.id \in connections[g.id]) )
            => ReferencesGroup(i, g)

\* the name the claim gives an instance: its own name attribute, else the
\* resource's name
ClaimedName(s, data, p) ==
    LET a == data[p[1]].instances[p[2]]
        own == IF s = "GCP" THEN <<"name">> ELSE <<"display_name", "name">>
        present == {n \in 1..Len(own) : own[n] \in DOMAIN a}
    IN  IF present = {} THEN S(data[p[1]].name)
        ELSE a[own[CHOOSE n \in present : \A m \in present : n <= m]]

\* C8: every entry of the table has id = type + '.' + name, its type the
\* enclosing resource's, its name the instance's own name attribute
\* (GCP: 'name'; OCI: 'display_name', else 'name') with fallback to the
\* resource's name, and its attributes the instance's, unchanged; and every
\* instance's id is a key of the table.
C8_EntryShape ==
    Parsed =>
      /\ \A e \in Range(resources) :
            /\ e.id = e.type \o "." \o (IF e.name.t = "str" THEN e.name.v ELSE "None")
            /\ \E p \in Instances(stateData) :
                  /\ e.type = stateData[p[1]].type
                  /\ e.name = ClaimedName(script, stateData, p)
                  /\ e.attributes = stateData[p[1]].instances[p[2]]
      /\ \A p \in Instances(stateData) :
            \E e \in Range(resources) :
                /\ e.type = stateData[p[1]].type
                /\ e.name = ClaimedName(script, stateData, p)

\* C8 witness: a parsed OCI table with an entry named by 'display_name'
\* although 'name' is present too, and one named by its resource.
C8_Witness ==
    /\ Parsed
    /\ script = "OCI"
    /\ pc = "generate"
    /\ \E e \in Range(resources) :
          /\ {"display_name", "name"} \subseteq DOMAIN e.attributes
          /\ e.name = e.attributes.display_name
          /\ e.name # e.attributes.name
    /\ \E e \in Range(resources) :
          /\ DOMAIN e.attributes \cap {"display_name", "name"} = {}
          /\ e.id = "oci_core_instance.pool"

====
